---- MODULE Spec2Model ----
(***************************************************************************)
(* Task lifecycle and recurrence engine of employeeTracker.py.             *)
(*                                                                         *)
(* Dates are proleptic-Gregorian ordinals (date.toordinal()), so that      *)
(* date + timedelta(days=k) is integer addition and date.weekday() is      *)
(* (ordinal + 6) % 7 with Monday = 0.  Text that the program splits or     *)
(* trims (the assignee column, the days_of_week column) is a sequence of   *)
(* one-character strings; text the program only stores and copies is a     *)
(* plain string.  SQL NULL / Python None is the value None.  Rows carry    *)
(* their SERIAL id; the model numbers rows 1, 2, ... in insertion order.   *)
(***************************************************************************)
EXTENDS Integers, Sequences, FiniteSets, TLC

VARIABLES tasks, templates, today, ret, calls, conns, calc, view, cache

vars == <<tasks, templates, today, ret, calls, conns, calc, view, cache>>

-----------------------------------------------------------------------------
(* Bounds of the model *)

\* number of consecutive reference dates the calculator is applied to
CalcDays == 7

\* first ordinal of the modelled window; 738886 is 2024-01-01, a Monday
Day0 == 738886

\* the clock stops MaxDays days after Day0
MaxDays == 30

\* rows of table tasks, rows of table recurring_templates
MaxTasks == 3

MaxTemplates == 1

\* calls of add_task and of update_task_details in one behaviour
MaxAdds == 1

MaxUpdates == 1

\* longest assignee text enumerated for the views
MaxLen == 4

-----------------------------------------------------------------------------
(* Text *)

None == <<"<None>">>

Comma == ","

Whitespace == {" ", "\t", "\n"}

RECURSIVE SplitAcc(_, _, _, _)
SplitAcc(s, i, cur, acc) ==
    IF i > Len(s) THEN Append(acc, cur)
    ELSE IF s[i] = Comma THEN SplitAcc(s, i + 1, <<>>, Append(acc, cur))
    ELSE SplitAcc(s, i + 1, Append(cur, s[i]), acc)

\* str.split(','): the pieces between commas, empty pieces kept
Split(s) == SplitAcc(s, 1, <<>>, <<>>)

RECURSIVE LStrip(_)
LStrip(s) ==
    IF s # <<>> /\ Head(s) \in Whitespace THEN LStrip(Tail(s)) ELSE s

RECURSIVE RStrip(_)
RStrip(s) ==
    IF s # <<>> /\ s[Len(s)] \in Whitespace
    THEN RStrip(SubSeq(s, 1, Len(s) - 1)) ELSE s

\* str.strip()
Strip(s) == RStrip(LStrip(s))

RECURSIVE JoinFrom(_, _)
JoinFrom(list, i) ==
    IF i > Len(list) THEN <<>>
    ELSE IF i = Len(list) THEN list[i]
    ELSE list[i] \o <<Comma>> \o JoinFrom(list, i + 1)

\* ",".join(list)
Join(list) == JoinFrom(list, 1)

-----------------------------------------------------------------------------
(* Dates *)

\* date.weekday(): Monday is 0, Sunday is 6
Weekday(d) == (d + 6) % 7

Mon == <<"M", "o", "n">>
Tue == <<"T", "u", "e">>
Wed == <<"W", "e", "d">>
Thu == <<"T", "h", "u">>
Fri == <<"F", "r", "i">>
Sat == <<"S", "a", "t">>
Sun == <<"S", "u", "n">>

DayNames == <<Mon, Tue, Wed, Thu, Fri, Sat, Sun>>

\* day_map = {"Mon": 0, ..., "Sun": 6}
day_map == [d \in {DayNames[i] : i \in 1..7} |->
               (CHOOSE i \in 1..7 : DayNames[i] = d) - 1]

-----------------------------------------------------------------------------
(* Recurrence calculator *)

RECURSIVE Insert(_, _)
Insert(x, sorted) ==
    IF sorted = <<>> THEN <<x>>
    ELSE IF x <= Head(sorted) THEN <<x>> \o sorted
    ELSE <<Head(sorted)>> \o Insert(x, Tail(sorted))

RECURSIVE Sorted(_)
Sorted(list) ==
    IF list = <<>> THEN <<>> ELSE Insert(Head(list), Sorted(Tail(list)))

RECURSIVE MapDays(_)
MapDays(tokens) ==
    IF tokens = <<>> THEN <<>>
    ELSE IF Head(tokens) \in DOMAIN day_map
         THEN <<day_map[Head(tokens)]>> \o MapDays(Tail(tokens))
         ELSE MapDays(Tail(tokens))

\* mutant: the weekday numbers are left in the order they were selected
TargetDays_unsorted(days_list_str) == MapDays(Split(days_list_str))

\* sorted([day_map[d] for d in days_list_str.split(',') if d in day_map])
TargetDays(days_list_str) == Sorted(MapDays(Split(days_list_str)))

\* mutant: a selected weekday that is the start date's own counts as ahead
RECURSIVE ScanDays_inclusive(_, _, _, _)
ScanDays_inclusive(start_date, target_days, i, current_weekday) ==
    IF i > Len(target_days)
    THEN start_date + ((6 - current_weekday) + 1 + target_days[1])
    ELSE IF target_days[i] >= current_weekday
         THEN start_date + (target_days[i] - current_weekday)
         ELSE ScanDays_inclusive(start_date, target_days, i + 1,
                                 current_weekday)

RECURSIVE ScanDays(_, _, _, _)
ScanDays(start_date, target_days, i, current_weekday) ==
    IF i > Len(target_days)
    THEN start_date + ((6 - current_weekday) + 1 + target_days[1])
    ELSE IF target_days[i] > current_weekday
         THEN start_date + (target_days[i] - current_weekday)
         ELSE ScanDays(start_date, target_days, i + 1, current_weekday)

\* Python truth value of an optional string
Truthy(s) == s # None /\ s # <<>>

\* mutant: Monthly is a 31-day step
get_next_schedule_date_31(start_date, frequency, days_list_str) ==
    IF frequency = "Daily" THEN start_date + 1
    ELSE IF frequency = "Weekly" THEN start_date + 7
    ELSE IF frequency = "Monthly" THEN start_date + 31
    ELSE IF frequency = "Specific Days" /\ Truthy(days_list_str)
         THEN LET target_days == TargetDays(days_list_str)
              IN  IF target_days = <<>> THEN start_date + 1
                  ELSE ScanDays(start_date, target_days, 1,
                                Weekday(start_date))
    ELSE start_date + 1

get_next_schedule_date(start_date, frequency, days_list_str) ==
    IF frequency = "Daily" THEN start_date + 1
    ELSE IF frequency = "Weekly" THEN start_date + 7
    ELSE IF frequency = "Monthly" THEN start_date + 30
    ELSE IF frequency = "Specific Days" /\ Truthy(days_list_str)
         THEN LET target_days == TargetDays(days_list_str)
              IN  IF target_days = <<>> THEN start_date + 1
                  ELSE ScanDays(start_date, target_days, 1,
                                Weekday(start_date))
    ELSE start_date + 1

-----------------------------------------------------------------------------
(* Store rows *)

\* mutant: the instance's deadline is the day it was created for plus one
TemplateTask_deadline(id, t) ==
    [id              |-> id,
     task_name       |-> t.task_name,
     department      |-> t.department,
     assignee        |-> t.assignee,
     status          |-> "To Do",
     deadline        |-> t.next_run_date + 1,
     total_items     |-> t.total_items,
     completed_items |-> 0,
     is_archived     |-> 0,
     description     |-> t.description,
     task_link       |-> t.task_link,
     file_path       |-> None]

\* a row of table tasks as the materializer inserts it (file_path is NULL)
TemplateTask(id, t) ==
    [id              |-> id,
     task_name       |-> t.task_name,
     department      |-> t.department,
     assignee        |-> t.assignee,
     status          |-> "To Do",
     deadline        |-> t.next_run_date,
     total_items     |-> t.total_items,
     completed_items |-> 0,
     is_archived     |-> 0,
     description     |-> t.description,
     task_link       |-> t.task_link,
     file_path       |-> None]

\* UPDATE recurring_templates SET next_run_date = new_date WHERE id = id
SetNextRun(tpls, id, new_date) ==
    [i \in DOMAIN tpls |->
        IF tpls[i].id = id THEN [tpls[i] EXCEPT !.next_run_date = new_date]
        ELSE tpls[i]]

\* mutant: a template due today is not selected
DueTemplates_strict(tpls, day) ==
    SelectSeq(tpls, LAMBDA t : t.next_run_date < day)

\* mutant: every template is selected, due or not
DueTemplates_all(tpls, day) == tpls

RECURSIVE DueFrom(_, _, _)
DueFrom(tpls, i, day) ==
    IF i > Len(tpls) THEN <<>>
    ELSE IF tpls[i].next_run_date <= day
         THEN <<tpls[i]>> \o DueFrom(tpls, i + 1, day)
         ELSE DueFrom(tpls, i + 1, day)

\* SELECT * FROM recurring_templates WHERE next_run_date <= day
\* (rows are fetched in id order)
DueTemplates(tpls, day) == DueFrom(tpls, 1, day)

-----------------------------------------------------------------------------
(* Recurring task materializer, as one handler *)

\* one pass of the for loop body for fetched row t
LoopBody(db, t) ==
    LET new_date == get_next_schedule_date(t.next_run_date, t.frequency,
                                           t.days_of_week)
    IN  [tasks     |-> Append(db.tasks, TemplateTask(Len(db.tasks) + 1, t)),
         templates |-> SetNextRun(db.templates, t.id, new_date),
         created   |-> db.created + 1]

RECURSIVE RunLoop(_, _, _)
RunLoop(db, due_templates, i) ==
    IF i > Len(due_templates) THEN db
    ELSE RunLoop(LoopBody(db, due_templates[i]), due_templates, i + 1)

\* the store and the count after process_recurring_tasks() on day `day`
Materialized(tsk, tpls, day) ==
    RunLoop([tasks |-> tsk, templates |-> tpls, created |-> 0],
            DueTemplates(tpls, day), 1)

-----------------------------------------------------------------------------
(* Archival sweep *)

\* cutoff_date = date.today() - timedelta(days=30)
ArchiveCutoffDays == 30

\* mutant: a deadline on the cutoff date counts as stale
Stale_inclusive(row, cutoff_date) ==
    row.status = "Done" /\ row.deadline <= cutoff_date /\ row.is_archived = 0

\* mutant: the status is not looked at
Stale_any_status(row, cutoff_date) ==
    row.deadline < cutoff_date /\ row.is_archived = 0

\* the WHERE clause of the sweep's UPDATE
Stale(row, cutoff_date) ==
    row.status = "Done" /\ row.deadline < cutoff_date /\ row.is_archived = 0

\* the table and c.rowcount after run_auto_archive() on day `day`
Archived(tsk, day) ==
    LET cutoff_date == day - ArchiveCutoffDays
        hit == {i \in DOMAIN tsk : Stale(tsk[i], cutoff_date)}
    IN  [tasks |-> [i \in DOMAIN tsk |->
                       IF i \in hit THEN [tsk[i] EXCEPT !.is_archived = 1]
                       ELSE tsk[i]],
         count |-> Cardinality(hit)]

-----------------------------------------------------------------------------
(* Task creation and update *)

\* assignee_list is a list (the multiselect) or a string (the text input)
AssigneeStr(assignee_list) ==
    IF assignee_list.is_list THEN Join(assignee_list.val) ELSE assignee_list.val

\* days_str = ",".join(days_list) if days_list else None
DaysStr(days_list) == IF days_list # <<>> THEN Join(days_list) ELSE None

\* the two tables after add_task(...); `a` holds the call's arguments by
\* name, a.file_url is what the upload returned
add_task(tsk, tpls, a) ==
    LET assignee_str == AssigneeStr(a.assignee_list)
        days_str == DaysStr(a.days_list)
        row == [id              |-> Len(tsk) + 1,
                task_name       |-> a.task_name,
                department      |-> a.department,
                assignee        |-> assignee_str,
                status          |-> a.status,
                deadline        |-> a.deadline,
                total_items     |-> a.total,
                completed_items |-> a.completed,
                is_archived     |-> 0,
                description     |-> a.description,
                task_link       |-> a.task_link,
                file_path       |-> a.file_url]
        tpl == [id            |-> Len(tpls) + 1,
                task_name     |-> a.task_name,
                department    |-> a.department,
                assignee      |-> assignee_str,
                frequency     |-> a.frequency,
                days_of_week  |-> days_str,
                next_run_date |-> get_next_schedule_date(a.deadline,
                                                         a.frequency, days_str),
                total_items   |-> a.total,
                description   |-> a.description,
                task_link     |-> a.task_link]
    IN  [tasks     |-> Append(tsk, row),
         templates |-> IF a.frequency # "Once" THEN Append(tpls, tpl)
                       ELSE tpls]

\* the table after update_task_details(...); `a` holds the call's arguments
update_task_details(tsk, a) ==
    [i \in DOMAIN tsk |->
        IF tsk[i].id # a.task_id THEN tsk[i]
        ELSE [tsk[i] EXCEPT
                !.status = a.new_status,
                !.completed_items = a.new_completed,
                !.description = a.new_desc,
                !.file_path = IF a.new_file_url # None THEN a.new_file_url
                              ELSE @,
                !.task_link = IF a.new_link # "" THEN a.new_link ELSE @]]

-----------------------------------------------------------------------------
(* Inputs *)

alice == <<"a", "l", "i", "c", "e">>
bob == <<"b", "o", "b">>
bo == <<"b", "o">>

\* seed rows of table statuses
StatusList == <<"To Do", "In Progress", "Review", "Done">>

Statuses == {StatusList[i] : i \in DOMAIN StatusList}

\* the options of the Frequency select box
Frequencies == {"Once", "Daily", "Weekly", "Monthly", "Specific Days"}

FileUrl == <<"https://storage/task-files/1.png">>

\* what a user puts into the fields of the Create Task form that the engine
\* only stores and copies; Total is a number from 1 to 100 and Done a number
\* from 0 to 100, each entered on its own
Forms ==
    {[task_name |-> "Report", department |-> "Engineering",
      assignee_list |-> [is_list |-> TRUE, val |-> <<alice, bob>>],
      status |-> "In Progress", total |-> 2, completed |-> 0, task_link |-> "",
      description |-> "weekly figures", file_url |-> None],
     [task_name |-> "Backup", department |-> "HR",
      assignee_list |-> [is_list |-> FALSE,
                         val |-> alice \o <<",", " ">> \o bob],
      status |-> "Done", total |-> 1, completed |-> 1,
      task_link |-> "http://wiki/backup",
      description |-> "", file_url |-> FileUrl],
     [task_name |-> "Audit", department |-> "HR",
      assignee_list |-> [is_list |-> TRUE, val |-> <<bob>>],
      status |-> "To Do", total |-> 1, completed |-> 2, task_link |-> "",
      description |-> "", file_url |-> None]}

\* the Deadline date picker, relative to today
DeadlineOffsets == {-1, 0, 1}

\* the Select Days multiselect, shown for Specific Days only
DaySelections(frequency) ==
    IF frequency = "Specific Days"
    THEN {<<>>, <<Mon>>, <<Fri, Wed>>}
    ELSE {<<>>}

\* what a user puts into the Update Task Details dialog besides the status;
\* Items Completed is a number from 0 to the row's total_items
Edits(row) ==
    {[new_completed |-> row.total_items, new_link |-> "",
      new_desc |-> row.description, new_file_url |-> None],
     [new_completed |-> 0, new_link |-> "http://wiki/new",
      new_desc |-> "blocked", new_file_url |-> FileUrl]}

\* days between two visits of the application
DaySteps == {14, 30}

-----------------------------------------------------------------------------
(* State *)

NoConns == <<>>

NoCalc == [phase |-> "none"]

NoView == [phase |-> "none"]

\* the entries of get_tasks' cache, one per value of include_archived; <<>>
\* is a missing entry.  This is the state after get_tasks.clear()
NoCache == [include_archived \in BOOLEAN |-> <<>>]

Ret(op, value) == [op |-> op, value |-> value]

Init ==
    /\ tasks = <<>>
    /\ templates = <<>>
    /\ today = Day0
    /\ ret = Ret("init_db", 0)
    /\ calls = [add |-> 0, update |-> 0]
    /\ cache = NoCache
    /\ conns = NoConns
    /\ calc = NoCalc
    /\ view = NoView

-----------------------------------------------------------------------------
(* Handlers *)

AddTask ==
    /\ Len(tasks) < MaxTasks
    /\ calls.add < MaxAdds
    /\ calls' = [calls EXCEPT !.add = @ + 1]
    /\ \E form \in Forms, off \in DeadlineOffsets, frequency \in Frequencies :
         \E days_list \in DaySelections(frequency) :
            LET a == [task_name |-> form.task_name,
                      department |-> form.department,
                      assignee_list |-> form.assignee_list,
                      status |-> form.status,
                      deadline |-> today + off,
                      total |-> form.total,
                      completed |-> form.completed,
                      frequency |-> frequency,
                      days_list |-> days_list,
                      task_link |-> form.task_link,
                      description |-> form.description,
                      file_url |-> form.file_url]
                db == add_task(tasks, templates, a)
            IN  /\ Len(db.templates) <= MaxTemplates
                /\ tasks' = db.tasks
                /\ templates' = db.templates
    /\ ret' = Ret("add_task", 0)
    /\ cache' = NoCache
    /\ UNCHANGED <<today, conns, calc, view>>

UpdateTaskDetails ==
    /\ calls.update < MaxUpdates
    /\ calls' = [calls EXCEPT !.update = @ + 1]
    /\ \E i \in DOMAIN tasks, new_status \in Statuses :
         \E e \in Edits(tasks[i]) :
            tasks' = update_task_details(tasks,
                        [task_id |-> tasks[i].id, new_status |-> new_status,
                         new_completed |-> e.new_completed,
                         new_link |-> e.new_link, new_desc |-> e.new_desc,
                         new_file_url |-> e.new_file_url])
    /\ ret' = Ret("update_task_details", 0)
    /\ cache' = NoCache
    /\ UNCHANGED <<templates, today, conns, calc, view>>

ProcessRecurringTasks ==
    LET db == Materialized(tasks, templates, today)
    IN  /\ Len(db.tasks) <= MaxTasks
        /\ tasks' = db.tasks
        /\ templates' = db.templates
        /\ ret' = Ret("process_recurring_tasks", db.created)
        /\ cache' = IF db.created > 0 THEN NoCache ELSE cache
        /\ UNCHANGED <<today, calls, conns, calc, view>>

RunAutoArchive ==
    LET db == Archived(tasks, today)
    IN  /\ tasks' = db.tasks
        /\ ret' = Ret("run_auto_archive", db.count)
        /\ UNCHANGED <<templates, today, calls, conns, calc, view, cache>>

\* the date of the next visit, weeks later: the cache's entries have expired
AdvanceDay ==
    /\ \E k \in DaySteps :
         /\ today + k <= Day0 + MaxDays
         /\ today' = today + k
    /\ ret' = Ret("date", 0)
    /\ cache' = NoCache
    /\ UNCHANGED <<tasks, templates, calls, conns, calc, view>>

Next ==
    \/ AddTask
    \/ ProcessRecurringTasks
    \/ RunAutoArchive
    \/ AdvanceDay

\* the engine on its visits: creation, materialization, sweep, the calendar
Spec == Init /\ [][Next]_vars

NextEdit ==
    \/ AddTask
    \/ UpdateTaskDetails
    \/ ProcessRecurringTasks
    \/ RunAutoArchive

\* creation and editing of tasks within one day
SpecEdit == Init /\ [][NextEdit]_vars

-----------------------------------------------------------------------------
(* Steps of the handlers, as the claims speak of them *)

\* this step is one invocation of process_recurring_tasks
ProcessStep == ret'.op = "process_recurring_tasks"

\* this step is one run of run_auto_archive
ArchiveStep == ret'.op = "run_auto_archive"

\* the previous handler was process_recurring_tasks, on the same day
AfterProcess == ret.op = "process_recurring_tasks"

AfterArchive == ret.op = "run_auto_archive"

DueSet == {i \in DOMAIN templates : templates[i].next_run_date <= today}

NewRows == (Len(tasks) + 1)..Len(tasks')

\* row is a fresh instance of template t, due on t's next-run-date
InstanceOf(row, t) ==
    /\ row.status = "To Do"
    /\ row.completed_items = 0
    /\ row.is_archived = 0
    /\ row.deadline = t.next_run_date
    /\ row.task_name = t.task_name
    /\ row.department = t.department
    /\ row.assignee = t.assignee
    /\ row.total_items = t.total_items
    /\ row.description = t.description
    /\ row.task_link = t.task_link

OldRowsKept ==
    /\ Len(tasks') >= Len(tasks)
    /\ \A k \in DOMAIN tasks : tasks'[k] = tasks[k]

-----------------------------------------------------------------------------
(* C1 *)

\* template i is Weekly, due since D = next_run_date with today = D + 7, and
\* no other template is due
WeeklyScenario(i) ==
    /\ templates[i].frequency = "Weekly"
    /\ today = templates[i].next_run_date + 7
    /\ DueSet = {i}

\* the state the first run of the scenario leaves: template i advanced to
\* D + 7 = today, its task for D the last row, one task reported
WeeklyScenarioRunOnce(i) ==
    /\ AfterProcess /\ ret.value = 1
    /\ templates[i].frequency = "Weekly"
    /\ templates[i].next_run_date = today
    /\ tasks # <<>>
    /\ InstanceOf(tasks[Len(tasks)],
                  [templates[i] EXCEPT !.next_run_date = today - 7])
    /\ DueSet = {i}

\* the first run creates exactly one task, with deadline D, and advances the
\* template to D + 7
WeeklyFirstRun ==
    \A i \in DOMAIN templates :
        WeeklyScenario(i) /\ ProcessStep =>
            /\ OldRowsKept
            /\ Len(tasks') = Len(tasks) + 1
            /\ InstanceOf(tasks'[Len(tasks')], templates[i])
            /\ tasks'[Len(tasks')].deadline = today - 7
            /\ templates'[i].next_run_date = today
            /\ ret'.value = 1

\* C1 as stated: (weekly template with next-run-date D, today = D + 7) the
\* first run creates one task with deadline D and advances the template to
\* D + 7, and a second run on the same day creates no further task.
C1_SecondRunCreatesNothing ==
    [][/\ WeeklyFirstRun
       /\ \A i \in DOMAIN templates :
            WeeklyScenarioRunOnce(i) /\ ProcessStep =>
                tasks' = tasks /\ ret'.value = 0]_vars

\* C1 amended: the first run is as stated; the second run on the same day
\* finds next-run-date D + 7 <= today and creates exactly one further task,
\* with deadline D + 7, advancing the template to D + 14; a run after that
\* creates nothing.
C1_WeeklyScenario ==
    [][/\ WeeklyFirstRun
       /\ \A i \in DOMAIN templates :
            /\ WeeklyScenarioRunOnce(i) /\ ProcessStep =>
                 /\ OldRowsKept
                 /\ Len(tasks') = Len(tasks) + 1
                 /\ InstanceOf(tasks'[Len(tasks')], templates[i])
                 /\ tasks'[Len(tasks')].deadline = today
                 /\ templates'[i].next_run_date = today + 7
                 /\ ret'.value = 1
            /\ (/\ AfterProcess /\ ProcessStep
                /\ templates[i].frequency = "Weekly"
                /\ templates[i].next_run_date = today + 7
                /\ DueSet = {}) =>
                 tasks' = tasks /\ templates' = templates /\ ret'.value = 0
      ]_vars

\* both runs of the scenario have happened: two instances of the weekly
\* template exist, for D = today - 7 and for D + 7 = today
C1_Witness ==
    \E i \in DOMAIN templates :
        /\ AfterProcess /\ ret.value = 1
        /\ templates[i].frequency = "Weekly"
        /\ templates[i].next_run_date = today + 7
        /\ Len(tasks) >= 2
        /\ InstanceOf(tasks[Len(tasks)],
                      [templates[i] EXCEPT !.next_run_date = today])
        /\ InstanceOf(tasks[Len(tasks) - 1],
                      [templates[i] EXCEPT !.next_run_date = today - 7])

-----------------------------------------------------------------------------
(* C2 *)

\* C2: a run of the materializer that directly follows another run on the
\* same day creates no task for a template whose next-run-date is already
\* past today and leaves that template as it is; when every template is past
\* today it creates nothing and returns 0.
C2_SecondRunIdempotent ==
    [][AfterProcess /\ ProcessStep =>
        /\ \A i \in DOMAIN templates :
             templates[i].next_run_date > today =>
                /\ templates'[i] = templates[i]
                /\ \A k \in NewRows : ~InstanceOf(tasks'[k], templates[i])
        /\ (\A i \in DOMAIN templates : templates[i].next_run_date > today)
             => tasks' = tasks /\ templates' = templates /\ ret'.value = 0
      ]_vars

\* a run that returned 0 although a template exists whose instance for an
\* earlier date is in the table: the template was advanced past today
C2_Witness ==
    /\ AfterProcess /\ ret.value = 0
    /\ \E i \in DOMAIN templates :
         /\ templates[i].next_run_date > today
         /\ \E k \in DOMAIN tasks :
              /\ tasks[k].deadline <= today
              /\ InstanceOf(tasks[k], [templates[i] EXCEPT
                                !.next_run_date = tasks[k].deadline])
              /\ k > 1

-----------------------------------------------------------------------------
(* C3 *)

\* C3: one run of the materializer creates, for each template with
\* next-run-date <= today and for no other, exactly one task (status To Do,
\* nothing completed, not archived, deadline the old next-run-date, the
\* other fields copied), sets the template's next-run-date to the calculator's
\* result for the old one, leaves the other templates alone, and returns the
\* number of tasks created.
C3_MaterializeOnce ==
    [][ProcessStep =>
        /\ OldRowsKept
        /\ Cardinality(NewRows) = Cardinality(DueSet)
        /\ \E f \in [DueSet -> NewRows] :
             /\ \A i, j \in DueSet : f[i] = f[j] => i = j
             /\ \A i \in DueSet : InstanceOf(tasks'[f[i]], templates[i])
        /\ Len(templates') = Len(templates)
        /\ \A i \in DueSet :
             templates'[i] = [templates[i] EXCEPT !.next_run_date =
                 get_next_schedule_date(templates[i].next_run_date,
                                        templates[i].frequency,
                                        templates[i].days_of_week)]
        /\ \A i \in DOMAIN templates \ DueSet : templates'[i] = templates[i]
        /\ ret'.value = Len(tasks') - Len(tasks)
      ]_vars

\* a run has created a task from a Specific Days template and advanced it
C3_Witness ==
    /\ AfterProcess /\ ret.value >= 1
    /\ \E i \in DOMAIN templates :
         /\ templates[i].frequency = "Specific Days"
         /\ templates[i].days_of_week # None
         /\ \E d \in 1..7 :
              InstanceOf(tasks[Len(tasks)], [templates[i] EXCEPT
                            !.next_run_date = templates[i].next_run_date - d])

-----------------------------------------------------------------------------
(* C8 *)

\* C8: one sweep archives exactly the unarchived Done tasks whose deadline is
\* more than 30 days before today (31 days: archived; 30 or 29: not) and
\* returns their number; a second sweep right after it archives nothing and
\* returns 0.
C8_ArchiveExactlyStale ==
    [][ArchiveStep =>
        /\ Len(tasks') = Len(tasks)
        /\ \A k \in DOMAIN tasks :
             /\ (tasks'[k].is_archived = 1 /\ tasks[k].is_archived = 0)
                  <=> (/\ tasks[k].status = "Done"
                       /\ tasks[k].deadline < today - 30
                       /\ tasks[k].is_archived = 0)
             /\ (tasks[k].status = "Done" /\ tasks[k].deadline = today - 31)
                  => tasks'[k].is_archived = 1
             /\ (/\ tasks[k].deadline \in {today - 30, today - 29}
                 /\ tasks[k].is_archived = 0) => tasks'[k].is_archived = 0
        /\ ret'.value = Cardinality({k \in DOMAIN tasks :
                            tasks'[k].is_archived # tasks[k].is_archived})
        /\ AfterArchive => tasks' = tasks /\ ret'.value = 0
      ]_vars

\* a sweep has just archived a Done task whose deadline is 31 days back
C8_Witness ==
    /\ AfterArchive /\ ret.value >= 1
    /\ \E k \in DOMAIN tasks :
         /\ tasks[k].status = "Done"
         /\ tasks[k].deadline = today - 31
         /\ tasks[k].is_archived = 1

-----------------------------------------------------------------------------
(* C9 *)

\* C9: a sweep removes no task, changes no field but the archived flag,
\* changes no template, and never archives a task that is not Done; so over
\* sweeps and date changes the task identities stay and a task that is not
\* Done keeps its flag.
C9_ArchiveFrame ==
    [][/\ ArchiveStep =>
            /\ templates' = templates
            /\ Len(tasks') = Len(tasks)
            /\ \A k \in DOMAIN tasks :
                 /\ tasks'[k] = [tasks[k] EXCEPT
                                    !.is_archived = tasks'[k].is_archived]
                 /\ tasks[k].status # "Done" =>
                        tasks'[k].is_archived = tasks[k].is_archived
       /\ (ArchiveStep \/ ret'.op = "date") =>
            /\ {tasks'[k].id : k \in DOMAIN tasks'}
                 = {tasks[k].id : k \in DOMAIN tasks}
            /\ \A k \in DOMAIN tasks :
                 tasks[k].status # "Done" =>
                    /\ tasks'[k].status # "Done"
                    /\ tasks'[k].is_archived = tasks[k].is_archived
      ]_vars

\* a sweep has run over a task that is not Done and 31 days past its
\* deadline, next to a template, and the task is not archived
C9_Witness ==
    /\ AfterArchive
    /\ templates # <<>>
    /\ \E k \in DOMAIN tasks :
         /\ tasks[k].status # "Done"
         /\ tasks[k].deadline < today - 30
         /\ tasks[k].is_archived = 0

-----------------------------------------------------------------------------
(* The calculator on its own *)

\* a frequency column may hold any text
CalcFrequencies == Frequencies \cup {"Yearly", ""}

RECURSIVE Reverse(_)
Reverse(list) ==
    IF list = <<>> THEN <<>> ELSE Append(Reverse(Tail(list)), Head(list))

\* the day names numbered in S, in week order
DayList(S) ==
    LET Pick[i \in 0..7] ==
            IF i = 0 THEN <<>>
            ELSE IF i \in S THEN Append(Pick[i - 1], DayNames[i])
            ELSE Pick[i - 1]
    IN  Pick[7]

\* days_of_week values: absent, empty, every selection of weekdays in week
\* order and in reverse, and texts with pieces that are no weekday name
CalcDayStrings ==
    {None, <<>>}
    \cup {Join(DayList(S)) : S \in SUBSET (1..7) \ {{}}}
    \cup {Join(Reverse(DayList(S))) : S \in SUBSET (1..7) \ {{}}}
    \cup {<<"m", "o", "n">>, <<",">>, Mon \o <<",", " ">> \o Tue,
          <<"X", "y", "z">> \o <<",">> \o Fri, Mon \o <<",">> \o Mon,
          <<" ">> \o Sun}

InitCalc ==
    /\ tasks = <<>>
    /\ templates = <<>>
    /\ today = Day0
    /\ ret = Ret("init_db", 0)
    /\ calls = [add |-> 0, update |-> 0]
    /\ cache = NoCache
    /\ conns = NoConns
    /\ view = NoView
    /\ \E d \in Day0..(Day0 + CalcDays - 1), f \in CalcFrequencies,
          w \in CalcDayStrings :
         calc = [phase |-> "call", start_date |-> d, frequency |-> f,
                 days_list_str |-> w]

Calculate ==
    /\ calc.phase = "call"
    /\ calc' = [calc EXCEPT !.phase = "return"]
                 @@ [result |-> get_next_schedule_date(calc.start_date,
                                    calc.frequency, calc.days_list_str)]
    /\ UNCHANGED <<tasks, templates, today, ret, calls, conns, view, cache>>

SpecCalc == InitCalc /\ [][Calculate]_vars

\* the pieces of s between commas, said without splitting: the comma-free
\* stretches that begin at the start or after a comma and end at the end or
\* before a comma
Pieces(s) ==
    {SubSeq(s, a, b) : <<a, b>> \in
        {p \in (1..(Len(s) + 1)) \X (0..Len(s)) :
            /\ p[1] <= p[2] + 1
            /\ (p[1] = 1 \/ s[p[1] - 1] = ",")
            /\ (p[2] = Len(s) \/ s[p[2] + 1] = ",")
            /\ \A k \in p[1]..p[2] : s[k] # ","}}

\* the weekday numbers (Mon = 0 .. Sun = 6) named in a days_of_week value
WeekdaySet(w) ==
    IF w = None THEN {}
    ELSE {n \in 0..6 : DayNames[n + 1] \in Pieces(w)}

Min(S) == CHOOSE x \in S : \A y \in S : x <= y

-----------------------------------------------------------------------------
(* C6 *)

\* C6: Daily is +1 day, Weekly +7, Monthly +30 whatever the date and the
\* weekday text; an unrecognized frequency, and Specific Days with an absent
\* or empty weekday text or one naming no weekday, is +1 day.
C6_FixedOffsets ==
    calc.phase = "return" =>
        LET off == calc.result - calc.start_date
        IN  /\ calc.frequency = "Daily" => off = 1
            /\ calc.frequency = "Weekly" => off = 7
            /\ calc.frequency = "Monthly" => off = 30
            /\ calc.frequency \notin
                   {"Daily", "Weekly", "Monthly", "Specific Days"} => off = 1
            /\ (/\ calc.frequency = "Specific Days"
                /\ WeekdaySet(calc.days_list_str) = {}) => off = 1

\* Specific Days with a text that names no weekday has returned the next day
C6_Witness ==
    /\ calc.phase = "return"
    /\ calc.frequency = "Specific Days"
    /\ calc.days_list_str = <<"m", "o", "n">>
    /\ calc.result = calc.start_date + 1

-----------------------------------------------------------------------------
(* C7 *)

\* C7: Specific Days with weekday set W, from a date with weekday cw: the
\* smallest d in W above cw gives +(d - cw) days; with none above cw the
\* result is +(6 - cw) + 1 + min(W) days.  {Wed, Fri} from a Monday is +2,
\* {Mon} from a Friday is +3.  The result is 1 to 7 days on and falls on a
\* weekday of W.
C7_SpecificWeekdays ==
    (/\ calc.phase = "return"
     /\ calc.frequency = "Specific Days"
     /\ WeekdaySet(calc.days_list_str) # {}) =>
        LET W == WeekdaySet(calc.days_list_str)
            cw == (calc.start_date + 6) % 7
            off == calc.result - calc.start_date
            later == {d \in W : d > cw}
        IN  /\ later # {} => off = Min(later) - cw
            /\ later = {} => off = (6 - cw) + 1 + Min(W)
            /\ (W = {2, 4} /\ cw = 0) => off = 2
            /\ (W = {0} /\ cw = 4) => off = 3
            /\ off \in 1..7
            /\ (calc.result + 6) % 7 \in W

\* {Mon} from a Friday has wrapped to the Monday three days on
C7_Witness ==
    /\ calc.phase = "return"
    /\ calc.frequency = "Specific Days"
    /\ calc.days_list_str = Mon
    /\ (calc.start_date + 6) % 7 = 4
    /\ calc.result = calc.start_date + 3

-----------------------------------------------------------------------------
(* Dashboard and workspace views *)

\* mutant: the user name is looked for anywhere in the raw assignee text
VisibleTo_substring(row, username) ==
    \E a \in 1..(Len(row.assignee) + 1) :
        /\ a + Len(username) - 1 <= Len(row.assignee)
        /\ SubSeq(row.assignee, a, a + Len(username) - 1) = username

\* username in [a.strip() for a in x.split(',')]
VisibleTo(row, username) ==
    LET parts == Split(row.assignee)
    IN  \E k \in DOMAIN parts : Strip(parts[k]) = username

IdsOf(rows) == [k \in DOMAIN rows |-> rows[k].id]

\* dash_df: df for a Manager, the rows assigned to the user for an Employee
DashDf(df, username, role) ==
    IF role = "Employee"
    THEN SelectSeq(df, LAMBDA row : VisibleTo(row, username))
    ELSE df

\* work_df before the status filter
WorkDf(df, username, role) ==
    IF role = "Employee"
    THEN SelectSeq(df, LAMBDA row : VisibleTo(row, username))
    ELSE df

\* work_df after the Filter by Status multiselect
WorkShown(work_df, selected_statuses) ==
    IF selected_statuses # {}
    THEN SelectSeq(work_df, LAMBDA row : row.status \in selected_statuses)
    ELSE <<>>

RECURSIVE Texts(_)
Texts(n) ==
    IF n = 0 THEN {<<>>}
    ELSE LET shorter == Texts(n - 1)
         IN  shorter \cup {Append(t, c) : t \in shorter,
                                          c \in {"b", "o", ",", " "}}

\* assignee texts: every text of up to MaxLen characters over b, o, comma
\* and blank, and some of full names
AssigneeTexts ==
    Texts(MaxLen)
    \cup {alice \o <<",", " ">> \o bob, alice \o <<",">> \o bob,
          <<" ">> \o bob \o <<"\t", ",">> \o alice, bob \o alice}

\* session_state['username'] of whoever is logged in
ViewUsers == {bob, bo, alice, <<>>, <<"b">>}

\* a table of two stored tasks, the first assigned as `text` says
ViewTable(text) ==
    LET form == CHOOSE f \in Forms : f.task_name = "Report"
        Args(f, t) ==
            [task_name |-> f.task_name, department |-> f.department,
             assignee_list |-> [is_list |-> FALSE, val |-> t],
             status |-> f.status, deadline |-> Day0, total |-> f.total,
             completed |-> f.completed, frequency |-> "Once",
             days_list |-> <<>>, task_link |-> f.task_link,
             description |-> f.description, file_url |-> f.file_url]
        one == add_task(<<>>, <<>>, Args(form, text))
        other == CHOOSE f \in Forms : f.task_name = "Backup"
    IN  add_task(one.tasks, one.templates,
                 Args(other, other.assignee_list.val)).tasks

InitView ==
    /\ tasks = <<>>
    /\ templates = <<>>
    /\ today = Day0
    /\ ret = Ret("init_db", 0)
    /\ calls = [add |-> 0, update |-> 0]
    /\ cache = NoCache
    /\ conns = NoConns
    /\ calc = NoCalc
    /\ \E text \in AssigneeTexts, u \in ViewUsers,
          r \in {"Employee", "Manager"},
          sel \in {Statuses, {"Done"}, {}} :
         view = [phase |-> "request", df |-> ViewTable(text), username |-> u,
                 role |-> r, selected_statuses |-> sel]

\* the Dashboard and My Workspace tabs of one run of main
Render ==
    /\ view.phase = "request"
    /\ LET work_df == WorkDf(view.df, view.username, view.role)
       IN  view' = [view EXCEPT !.phase = "shown"]
                     @@ [dash |-> IdsOf(DashDf(view.df, view.username,
                                               view.role)),
                         work |-> IdsOf(work_df),
                         work_shown |-> IdsOf(WorkShown(work_df,
                                               view.selected_statuses))]
    /\ UNCHANGED <<tasks, templates, today, ret, calls, conns, calc, cache>>

SpecView == InitView /\ [][Render]_vars

AllBlank(s) == \A k \in DOMAIN s : s[k] \in Whitespace

\* u is piece p without its leading and trailing whitespace
TrimOf(u, p) ==
    /\ u = <<>> \/ (u[1] \notin Whitespace /\ u[Len(u)] \notin Whitespace)
    /\ \E a \in 1..(Len(p) + 1) :
         /\ a + Len(u) - 1 <= Len(p)
         /\ SubSeq(p, a, a + Len(u) - 1) = u
         /\ AllBlank(SubSeq(p, 1, a - 1))
         /\ AllBlank(SubSeq(p, a + Len(u), Len(p)))

\* u is exactly one element of the assignee text
ExactElement(u, text) == \E p \in Pieces(text) : TrimOf(u, p)

Shown(ids) == {ids[k] : k \in DOMAIN ids}

-----------------------------------------------------------------------------
(* C10 *)

\* C10: for an Employee, a row of the task table is in the dashboard and in
\* the workspace exactly when the user name equals one element of its
\* assignee text, split on commas and trimmed; "alice, bob" is shown to bob
\* and not to bo; both tabs apply the same filter, the workspace then its
\* status filter.
C10_ExactAssigneeMatch ==
    (view.phase = "shown" /\ view.role = "Employee") =>
        /\ \A k \in DOMAIN view.df :
             LET row == view.df[k]
                 mine == ExactElement(view.username, row.assignee)
             IN  /\ row.id \in Shown(view.dash) <=> mine
                 /\ row.id \in Shown(view.work) <=> mine
                 /\ row.id \in Shown(view.work_shown) <=>
                        (mine /\ row.status \in view.selected_statuses)
                 /\ row.assignee = alice \o <<",", " ">> \o bob =>
                        /\ view.username = bob => row.id \in Shown(view.dash)
                        /\ view.username = bo =>
                               row.id \notin Shown(view.dash)
        /\ view.work = view.dash

\* bo is logged in as an Employee: the task of "alice, bob" is hidden, the
\* task of ", bo" is shown
C10_Witness ==
    /\ view.phase = "shown" /\ view.role = "Employee"
    /\ view.username = bo
    /\ view.df[1].assignee = <<",", " ", "b", "o">>
    /\ view.df[2].assignee = alice \o <<",", " ">> \o bob
    /\ view.dash = <<view.df[1].id>>
    /\ view.work = <<view.df[1].id>>

-----------------------------------------------------------------------------
(* The materializer statement by statement, on its own connection *)
(*                                                                         *)
(* Each invocation opens a connection; its INSERTs and UPDATEs belong to   *)
(* one transaction that conn.commit() makes visible.  A statement that     *)
(* raises leaves the function before conn.commit(), so the transaction is  *)
(* rolled back when the connection goes away.  The SELECT reads committed  *)
(* rows (PostgreSQL's default READ COMMITTED); an UPDATE of a row another  *)
(* open transaction has updated waits for that transaction to end.  Rows   *)
(* are numbered in commit order.                                           *)

\* sessions that may run main() at the same moment
Sessions == {1, 2}

IdleConn ==
    [pc |-> "idle", day |-> Day0, due_templates |-> <<>>, i |-> 1,
     inserted |-> <<>>, updated |-> <<>>, tasks_created |-> 0]

\* template rows another session's open transaction has updated
LockedByOthers(w) ==
    UNION {{conns[v].updated[k].id : k \in DOMAIN conns[v].updated} :
             v \in DOMAIN conns \ {w}}

RECURSIVE ApplyUpdates(_, _, _)
ApplyUpdates(tpls, updated, k) ==
    IF k > Len(updated) THEN tpls
    ELSE ApplyUpdates(SetNextRun(tpls, updated[k].id, updated[k].new_date),
                      updated, k + 1)

\* mutant: every statement is committed as it runs, so a failed invocation
\* keeps what it wrote
RolledBack_autocommit(db, conn) ==
    [tasks     |-> db.tasks \o [k \in DOMAIN conn.inserted |->
                       [conn.inserted[k] EXCEPT !.id = Len(db.tasks) + k]],
     templates |-> ApplyUpdates(db.templates, conn.updated, 1)]

\* the tables after conn.commit()
Committed(db, conn) ==
    [tasks     |-> db.tasks \o [k \in DOMAIN conn.inserted |->
                       [conn.inserted[k] EXCEPT !.id = Len(db.tasks) + k]],
     templates |-> ApplyUpdates(db.templates, conn.updated, 1)]

\* the tables after an invocation that raised before conn.commit()
RolledBack(db, conn) == db

\* connect, read the date, SELECT the due templates
Begin(w) ==
    /\ conns[w].pc = "idle"
    /\ LET due_templates == DueTemplates(templates, today)
       IN  /\ Len(tasks) + Len(due_templates) <= MaxTasks
           /\ conns' = [conns EXCEPT ![w] =
                  [IdleConn EXCEPT
                      !.pc = IF due_templates = <<>> THEN "commit"
                             ELSE "insert",
                      !.day = today,
                      !.due_templates = due_templates]]
    /\ UNCHANGED <<tasks, templates, today, ret, calls, calc, view, cache>>

\* INSERT INTO tasks for the current row of the loop
InsertTask(w) ==
    /\ conns[w].pc = "insert"
    /\ LET t == conns[w].due_templates[conns[w].i]
       IN  conns' = [conns EXCEPT
                ![w].inserted = Append(@, TemplateTask(0, t)),
                ![w].pc = "update"]
    /\ UNCHANGED <<tasks, templates, today, ret, calls, calc, view, cache>>

\* UPDATE recurring_templates for the current row; tasks_created += 1
UpdateTemplate(w) ==
    /\ conns[w].pc = "update"
    /\ LET t == conns[w].due_templates[conns[w].i]
           new_date == get_next_schedule_date(t.next_run_date, t.frequency,
                                              t.days_of_week)
       IN  /\ t.id \notin LockedByOthers(w)
           /\ conns' = [conns EXCEPT
                ![w].updated = Append(@, [id |-> t.id,
                                          new_date |-> new_date]),
                ![w].tasks_created = @ + 1,
                ![w].i = @ + 1,
                ![w].pc = IF conns[w].i < Len(conns[w].due_templates)
                          THEN "insert" ELSE "commit"]
    /\ UNCHANGED <<tasks, templates, today, ret, calls, calc, view, cache>>

\* conn.commit(), conn.close(), return
Commit(w) ==
    /\ conns[w].pc = "commit"
    /\ LET db == Committed([tasks |-> tasks, templates |-> templates],
                           conns[w])
       IN  /\ tasks' = db.tasks
           /\ templates' = db.templates
    /\ ret' = Ret("process_recurring_tasks", conns[w].tasks_created)
    /\ cache' = IF conns[w].tasks_created > 0 THEN NoCache ELSE cache
    /\ conns' = [conns EXCEPT ![w] = IdleConn]
    /\ UNCHANGED <<today, calls, calc, view>>

\* a statement of the loop, or the commit, raises: the exception leaves the
\* function; ret.value counts the statements that had run
Raise(w) ==
    /\ conns[w].pc \in {"insert", "update", "commit"}
    /\ LET db == RolledBack([tasks |-> tasks, templates |-> templates],
                            conns[w])
       IN  /\ tasks' = db.tasks
           /\ templates' = db.templates
    /\ ret' = Ret("raise", Len(conns[w].inserted) + Len(conns[w].updated))
    /\ conns' = [conns EXCEPT ![w] = IdleConn]
    /\ UNCHANGED <<today, calls, calc, view, cache>>

\* no invocation is under way
Quiet == \A w \in DOMAIN conns : conns[w].pc = "idle"

InitTx ==
    /\ tasks = <<>>
    /\ templates = <<>>
    /\ today = Day0
    /\ ret = Ret("init_db", 0)
    /\ calls = [add |-> 0, update |-> 0]
    /\ cache = NoCache
    /\ conns = [w \in {1} |-> IdleConn]
    /\ calc = NoCalc
    /\ view = NoView

\* one session: invocations follow one another, and any may fail
NextTx ==
    \/ Quiet /\ AddTask
    \/ Quiet /\ AdvanceDay
    \/ Begin(1)
    \/ InsertTask(1)
    \/ UpdateTemplate(1)
    \/ Commit(1)
    \/ Raise(1)

SpecTx == InitTx /\ [][NextTx]_vars

InitConc ==
    /\ tasks = <<>>
    /\ templates = <<>>
    /\ today = Day0
    /\ ret = Ret("init_db", 0)
    /\ calls = [add |-> 0, update |-> 0]
    /\ cache = NoCache
    /\ conns = [w \in Sessions |-> IdleConn]
    /\ calc = NoCalc
    /\ view = NoView

\* the sessions' invocations interleave statement by statement
NextConc ==
    \/ Quiet /\ AddTask
    \/ Quiet /\ AdvanceDay
    \/ \E w \in Sessions :
         \/ Begin(w)
         \/ InsertTask(w)
         \/ UpdateTemplate(w)
         \/ Commit(w)

SpecConc == InitConc /\ [][NextConc]_vars

-----------------------------------------------------------------------------
(* C4 *)

\* templates whose next-run-date this step changes
Advanced == {i \in DOMAIN templates :
                templates'[i].next_run_date # templates[i].next_run_date}

\* this step is session w's invocation raising
RaiseStep(w) ==
    conns[w].pc # "idle" /\ conns'[w].pc = "idle" /\ ret'.op = "raise"

\* C4: in the committed tables a template is advanced exactly together with
\* the task created from it: a step that advances templates adds one
\* instance for each of them and no other row, a step that adds instances
\* advances their templates; an invocation that raises, and every statement
\* before the commit, leave both tables as they were.
C4_AtomicPair ==
    [][/\ ret'.op # "add_task" =>
            /\ OldRowsKept
            /\ Cardinality(NewRows) = Cardinality(Advanced)
            /\ \E f \in [Advanced -> NewRows] :
                 /\ \A i, j \in Advanced : f[i] = f[j] => i = j
                 /\ \A i \in Advanced : InstanceOf(tasks'[f[i]], templates[i])
       /\ \A w \in DOMAIN conns :
            (conns'[w].pc # "idle" \/ RaiseStep(w)) =>
                tasks' = tasks /\ templates' = templates
      ]_vars

\* an invocation has raised after its INSERT and before its UPDATE: the
\* template is still due and no instance of it is in the table
C4_Witness ==
    /\ ret.op = "raise" /\ ret.value = 1
    /\ Quiet
    /\ \E i \in DOMAIN templates :
         /\ templates[i].next_run_date <= today
         /\ \A k \in DOMAIN tasks : ~InstanceOf(tasks[k], templates[i])

-----------------------------------------------------------------------------
(* C5 *)

\* instances of template i in the table for run date d
InstancesFor(i, d) ==
    {k \in DOMAIN tasks :
        InstanceOf(tasks[k], [templates[i] EXCEPT !.next_run_date = d])}

\* C5: however two invocations on the same day interleave, a template yields
\* at most one task for each next-run-date value.
C5_OneTaskPerRunDate ==
    \A i \in DOMAIN templates :
        \A d \in {tasks[k].deadline : k \in DOMAIN tasks} :
            Cardinality(InstancesFor(i, d)) <= 1

-----------------------------------------------------------------------------
(* Progress counters *)

\* C11: in every reachable state of the store, after any sequence of
\* add_task, update_task_details and process_recurring_tasks, every task has
\* 0 <= completed_items <= total_items; a proposed completed value above
\* total_items, or a negative one, is never stored as given.
C11_CompletedWithinTotal ==
    \A i \in DOMAIN tasks :
        /\ 0 <= tasks[i].completed_items
        /\ tasks[i].completed_items <= tasks[i].total_items

-----------------------------------------------------------------------------
(* Well-formed templates *)

\* C12: in every reachable state of the store, after add_task calls with any
\* frequency and any selection of days (none included) and any number of
\* materializations, every template with frequency "Specific Days" carries a
\* non-empty set of weekdays, and every template's next_run_date is a date,
\* never null.
C12_TemplatesWellFormed ==
    \A i \in DOMAIN templates :
        /\ templates[i].frequency = "Specific Days" =>
              /\ templates[i].days_of_week # None
              /\ TargetDays(templates[i].days_of_week) # <<>>
        /\ templates[i].next_run_date \in Int

-----------------------------------------------------------------------------
(* The cached query and one run of the page *)

Roles == {"Employee", "Manager"}

\* SELECT * FROM tasks [WHERE is_archived = 0]
SelectTasks(tsk, include_archived) ==
    SelectSeq(tsk, LAMBDA row : include_archived \/ row.is_archived = 0)

\* get_tasks(include_archived) behind st.cache_data(ttl=60): an entry of the
\* cache is served as it is, a missing one is filled from the store
get_tasks(tsk, entries, day, include_archived) ==
    IF entries[include_archived] # <<>>
    THEN [df |-> entries[include_archived][1].df, cache |-> entries]
    ELSE LET df == SelectTasks(tsk, include_archived)
         IN  [df |-> df,
              cache |-> [entries EXCEPT ![include_archived] =
                                          <<[df |-> df, day |-> day]>>]]

\* one run of main for a logged-in user: the materializer, the sweep, then
\* the table for the tabs; box is the Show Archived checkbox, which only a
\* Manager has
Main ==
    \E role \in Roles, box \in BOOLEAN :
        LET new_recurr == Materialized(tasks, templates, today)
            swept == Archived(new_recurr.tasks, today)
            kept == IF new_recurr.created > 0 THEN NoCache ELSE cache
            show_archived == IF role = "Manager" THEN box ELSE FALSE
            got == get_tasks(swept.tasks, kept, today, show_archived)
        IN  /\ Len(new_recurr.tasks) <= MaxTasks
            /\ tasks' = swept.tasks
            /\ templates' = new_recurr.templates
            /\ cache' = got.cache
            /\ view' = [phase |-> "get_tasks", role |-> role,
                        include_archived |-> show_archived, df |-> got.df]
            /\ ret' = Ret("main", new_recurr.created)
            /\ UNCHANGED <<today, calls, conns, calc>>

\* midnight passes within the 60 seconds of an entry made on the day that
\* ends; an older entry has expired
Midnight ==
    /\ today + 1 <= Day0 + MaxDays
    /\ \E k \in BOOLEAN : cache[k] # <<>> /\ cache[k][1].day = today
    /\ today' = today + 1
    /\ cache' = [k \in BOOLEAN |->
                    IF cache[k] # <<>> /\ cache[k][1].day = today
                    THEN cache[k] ELSE <<>>]
    /\ ret' = Ret("date", 0)
    /\ UNCHANGED <<tasks, templates, calls, conns, calc, view>>

\* an entry reaches its ttl
ExpireCache ==
    /\ \E k \in BOOLEAN :
         /\ cache[k] # <<>>
         /\ cache' = [cache EXCEPT ![k] = <<>>]
    /\ UNCHANGED <<tasks, templates, today, ret, calls, conns, calc, view>>

NextCache ==
    \/ AddTask
    \/ Main
    \/ Midnight
    \/ AdvanceDay
    \/ ExpireCache

\* the page with its cache, over the days
SpecCache == Init /\ [][NextCache]_vars

\* the row of the store with this id
StoreRow(id) == tasks[CHOOSE i \in DOMAIN tasks : tasks[i].id = id]

\* C13: after any sequence of creations, updates, materializations and
\* sweeps, the table that get_tasks(include_archived=False) hands to a run of
\* the page through its cache holds no task whose is_archived flag is set in
\* the store; include_archived=True is requested for a Manager only, so the
\* table handed to an Employee holds no archived task.
C13_ArchivedHidden ==
    (ret.op = "main" /\ view.phase = "get_tasks") =>
        /\ view.include_archived => view.role = "Manager"
        /\ (~view.include_archived \/ view.role = "Employee") =>
              \A k \in DOMAIN view.df :
                  StoreRow(view.df[k].id).is_archived = 0

-----------------------------------------------------------------------------
(* Catching up on a fixed day *)

\* the Select Days multiselect: none, one day, two days in the order of the
\* clicks
CatchUpSelections(frequency) ==
    IF frequency = "Specific Days"
    THEN {<<>>, <<Mon>>, <<Sun>>, <<Fri, Wed>>, <<Sun, Mon>>}
    ELSE {<<>>}

\* one task was created some days ago, with its deadline on that day or the
\* next, and the page has not run since
InitCatchUp ==
    /\ today \in Day0..(Day0 + CalcDays - 1)
    /\ ret = Ret("date", 0)
    /\ calls = [add |-> 1, update |-> 0]
    /\ cache = NoCache
    /\ conns = NoConns
    /\ calc = NoCalc
    /\ view = NoView
    /\ \E form \in Forms, lag \in -1..(MaxTasks - 1),
          frequency \in Frequencies :
         \E days_list \in CatchUpSelections(frequency) :
            LET db == add_task(<<>>, <<>>,
                        [task_name |-> form.task_name,
                         department |-> form.department,
                         assignee_list |-> form.assignee_list,
                         status |-> form.status,
                         deadline |-> today - lag,
                         total |-> form.total,
                         completed |-> form.completed,
                         frequency |-> frequency,
                         days_list |-> days_list,
                         task_link |-> form.task_link,
                         description |-> form.description,
                         file_url |-> form.file_url])
            IN  /\ tasks = db.tasks
                /\ templates = db.templates

NextCatchUp == ProcessRecurringTasks

\* the page runs again and again on one day
SpecCatchUp ==
    InitCatchUp /\ [][NextCatchUp]_vars /\ WF_vars(ProcessRecurringTasks)

\* the last invocation found nothing due
CaughtUp == ret.op = "process_recurring_tasks" /\ ret.value = 0

=============================================================================
